---------------------------- MODULE Spec2Model ----------------------------
(***************************************************************************)
(* Model of public/scripts/circuit-background.js: the circuit generator    *)
(* (class Circuits), the particles that travel along the circuits (class   *)
(* Particle, createParticles) and the frame loop with its debounced        *)
(* resize handling (init, startLoop, the resize listener).                 *)
(*                                                                         *)
(* Cells and directions are pairs <<x, y>>.  Math.random() is a choice     *)
(* over the values the expression it feeds can take.                       *)
(***************************************************************************)
EXTENDS Integers, Sequences, FiniteSets, TLC

\* ------------------------------------------------------------------------
\* Bounds of the model
\* ------------------------------------------------------------------------
\* largest number of grid columns (Math.floor(width / size))
MaxCols == 3
\* largest number of grid rows (Math.floor(height / size))
MaxRows == 3
\* the minLength argument of the Circuits constructor
MinLength == 2
\* the maxLength argument of the Circuits constructor
MaxLength == 4
\* attempt budget of populate() (1000 in the source)
Attempts == 3
\* number of resize events
MaxResizes == 3
\* number of frame requests after which no further frame callback is run
MaxFrames == 4
\* milliseconds by which one step of the clock advances the time
TickMs == 50
\* Math.random() returns one of 0/RandDen, 1/RandDen, ..., (RandDen-1)/RandDen
RandDen == 4
\* milliseconds by which performance.now() advances in one step
FaceTickMs == 100
\* performance.now() does not advance beyond this value
MaxNow == 400
\* number of flashFace calls after which no further one is made
MaxFlashes == 2
\* number of init() calls after which the window is not resized again
MaxInits == 2
\* columns and rows of the grid when init() is followed step by step
BuildCols == 2
BuildRows == 2

\* ------------------------------------------------------------------------
\* Program constants
\* ------------------------------------------------------------------------
\* tries per getStart() call
GET_START_TRIES == 10
\* pixels per cell
CELL_SIZE == 10
\* particle speed range, in hundredths of a pixel per tick (0.22 and 0.5)
PARTICLE_SPEED_MIN == 22
PARTICLE_SPEED_MAX == 50
\* delay of the resize timer, in milliseconds
DEBOUNCE_MS == 200
\* mouse-look: T.throttleMs
THROTTLE_MS == 80

VARIABLES
    cols,        \* Circuits.cols
    rows,        \* Circuits.rows
    scene,       \* Circuits.scene: column -> [rows: row -> 0/1, free: count]
    collection,  \* Circuits.collection: sequence of accepted circuits
    gpc,         \* position inside populate(): "loop", "getStart", "walk", "done", "threw"
    attempts,    \* populate's local `attempts`
    tries,       \* getStart's local `tries`
    walk,        \* buildCircuit's locals: [start, path, coords, pos, dir, length]
    discarded,   \* history: coordinate sequences of the walks buildCircuit returned null for
    particle,    \* one Particle of Particles.particles: [circuit, velocity, progress, x, y]
    lookup,      \* history: the segment index of the particle's last update(), and
                 \* whether path[index] was undefined (update() threw)
    animationFrameId, \* the module's `animationFrameId`; 0 is undefined
    rafPending,  \* frame requests not yet run or cancelled: [id, gen], gen being
                 \* the initialization whose loop() closure was requested
    rafIds,      \* number of requestAnimationFrame calls so far
    resizeTimeout, \* the module's `resizeTimeout`; 0 is undefined
    timers,      \* pending setTimeout callbacks: [id, age in ms]
    timerIds,    \* number of setTimeout calls so far
    loaded,      \* the load event has been dispatched
    inits,       \* number of init() calls so far
    loopGen,     \* the init() call whose startLoop ran last; 0 before the first
    systems,     \* per init() call that built particles: [tick, raster], the number
                 \* of Particles.update() calls and the tick its offscreen canvas shows
    visible,     \* what particleCanvas shows: [gen, tick]; gen 0 is a cleared canvas
    rebuild,     \* history: the last rebuild, [trigger, stale], stale being the
                 \* frame requests pending when new Dots / new Circuits began
    lastFrame,   \* history: the last run of loop()
    resizes,     \* history: number of resize events so far
    sinceResize, \* history: ms since the last resize event, saturating at DEBOUNCE_MS
    reinits,     \* history: runs of the resize callback since the last resize event
    reinitDelay, \* history: sinceResize when the resize callback last ran
    missedBurst, \* history: a burst of resize events was followed by a new burst
                 \* without the resize callback having run in between
    burstLen,    \* history: number of resize events of the current burst
    particles,   \* createParticles: Particles.particles, in the order of add()
    create,      \* position inside createParticles: [pc, circuit, count, i]
    dom,         \* the ids of the canvas elements the document has
    outcome,     \* history: the last run of init() or of the resize callback,
                 \* [trigger, error], error being the uncaught exception
    backdrop,    \* what circuitCanvas shows: the init() call whose static
                 \* background was drawn on it; 0 is a cleared canvas
    staticDraws, \* history: number of drawStaticBackground calls so far
    blits,       \* history: number of drawImage calls onto particleCanvas so far
    now,         \* performance.now(), in ms
    lockUntil,   \* face-priority.js: `lockUntil`
    currentFace, \* status-bar.js: `currentFace`, the face the bar shows
    facesReady,  \* status-bar.js: `facesReady && atlas`
    faceTimer,   \* status-bar.js: `faceTimer`; 0 is null
    faceTimers,  \* pending flashFace timeouts: [id, due]
    faceTimerIds, \* number of setTimeout calls of flashFace so far
    lowCall,     \* history: the last setFaceLow call, [name, at, lock, before, after,
                 \* since, pending, applied]: since is the last lock call made
                 \* before it, pending whether the timeout of that flash had not
                 \* run yet, applied whether it reached setFace
    lockCall,    \* history: the last flashFaceHigh, lockFace or clearLock call,
                 \* [op, at, ms, timer]
    lastZone,    \* mouse-look: `lastZone`; "none" is null
    moveT,       \* mouse-look: `t`, the time of the last move that passed the throttle
    moveCall,    \* history: the last run of onMove, [zone, passed, unlocked, ready,
                 \* face]: whether it passed the throttle, whether no lock was
                 \* active, whether the assets were ready, the face shown after it
    revert,      \* history: the last run of the flashFace timeout, [timer, low]:
                 \* low tells that a setFaceLow made after that flash, with no
                 \* other lock call in between, had been applied
    canvas,      \* Circuits.canvas: what draw() rasterized, [lines, rings]
    draws        \* history: per init() call, the number of Circuits.draw() calls

genVars == <<cols, rows, scene, collection, gpc, attempts, tries, walk, discarded>>

particleVars == <<particle, lookup, particles, create>>

frameVars == <<animationFrameId, rafPending, rafIds, inits, loopGen, systems,
               visible, rebuild, lastFrame, outcome, backdrop, staticDraws, blits>>

timerVars == <<resizeTimeout, timers, timerIds, loaded, resizes, sinceResize,
               reinits, reinitDelay, missedBurst, burstLen>>

mouseVars == <<lastZone, moveT, moveCall>>

faceVars == <<now, lockUntil, currentFace, facesReady, faceTimer, faceTimers,
              faceTimerIds, lowCall, lockCall, revert, mouseVars>>

drawVars == <<canvas, draws>>

loopVars == <<frameVars, timerVars, dom, faceVars, drawVars>>

vars == <<genVars, particleVars, loopVars>>

\* ------------------------------------------------------------------------
\* Utility functions
\* ------------------------------------------------------------------------
Null == <<>>
Zero == <<0, 0>>

\* const dirs = [[1,0],[-1,0],[0,1],[0,-1]]
dirs == {<<1, 0>>, <<-1, 0>>, <<0, 1>>, <<0, -1>>}

\* the values of Math.floor(Math.random() * d), Math.random() in [0, 1)
FloorRandom(d) == IF d > 0 THEN 0 .. (d - 1) ELSE d .. 0

Add(c, d) == <<c[1] + d[1], c[2] + d[2]>>

\* new Column(rows)
Column(r) == [rows |-> [y \in 0 .. (r - 1) |-> 0], free |-> r]

NoFrame == [gen |-> 0, latest |-> 0, queued |-> FALSE, clean |-> TRUE,
            tick |-> 0, raster |-> 0, shown |-> [gen |-> 0, tick |-> 0],
            statics |-> 0, blits |-> 0]

NoLockCall == [op |-> "none", at |-> 0, ms |-> 0, timer |-> 0]

NoLowCall == [name |-> "none", at |-> 0, lock |-> 0, before |-> "idle",
              after |-> "idle", since |-> NoLockCall, pending |-> FALSE,
              applied |-> FALSE]

NoRevert == [timer |-> 0, low |-> FALSE]

NoMove == [zone |-> "none", passed |-> FALSE, unlocked |-> FALSE,
           ready |-> FALSE, face |-> "idle"]

NoOutcome == [trigger |-> "none", error |-> "none"]

\* document.getElementById finds both canvases
Canvases == {"circuitCanvas", "particleCanvas"}

NoRebuild == [trigger |-> "none", stale |-> 0]

\* the script has run, no event has been dispatched yet
LoopIdle ==
    /\ animationFrameId = 0
    /\ rafPending = {}
    /\ rafIds = 0
    /\ resizeTimeout = 0
    /\ timers = {}
    /\ timerIds = 0
    /\ loaded = FALSE
    /\ inits = 0
    /\ loopGen = 0
    /\ systems = <<>>
    /\ visible = [gen |-> 0, tick |-> 0]
    /\ rebuild = NoRebuild
    /\ lastFrame = NoFrame
    /\ outcome = NoOutcome
    /\ backdrop = 0
    /\ staticDraws = 0
    /\ blits = 0
    /\ resizes = 0
    /\ sinceResize = DEBOUNCE_MS
    /\ reinits = 0
    /\ reinitDelay = 0
    /\ missedBurst = FALSE
    /\ burstLen = 0
    /\ now = 0
    /\ lockUntil = 0
    /\ currentFace = "idle"
    /\ facesReady = FALSE
    /\ faceTimer = 0
    /\ faceTimers = {}
    /\ faceTimerIds = 0
    /\ lowCall = NoLowCall
    /\ lockCall = NoLockCall
    /\ revert = NoRevert
    /\ lastZone = "none"
    /\ moveT = 0
    /\ moveCall = NoMove
    /\ canvas = Null
    /\ draws = <<>>

\* createParticles has not been called
CreateIdle == [pc |-> "idle", circuit |-> 0, count |-> 0, i |-> 0]

NoWalk == [start |-> Null, path |-> <<>>, coords |-> <<>>, pos |-> Null,
           dir |-> Null, length |-> 0]

\* ------------------------------------------------------------------------
\* class Circuits
\* ------------------------------------------------------------------------
\* IsFree without the occupancy test: any cell of the grid counts as free
IsFreeInGrid(s, c) ==
    /\ c[1] \in DOMAIN s
    /\ c[2] \in DOMAIN s[c[1]].rows

\* IsFree taking a cell outside the grid for a free one
IsFreeOrOutside(s, c) ==
    IF c[1] \in DOMAIN s /\ c[2] \in DOMAIN s[c[1]].rows
    THEN s[c[1]].rows[c[2]] = 0
    ELSE TRUE

\* this.scene[x]?.rows[y] === 0 : false outside the grid
IsFree(s, c) ==
    /\ c[1] \in DOMAIN s
    /\ c[2] \in DOMAIN s[c[1]].rows
    /\ s[c[1]].rows[c[2]] = 0

\* isBlocked(dir)
isBlocked(dir) == dir[1] = 0 /\ dir[2] = 0

\* markUsed([x, y])
markUsed(s, c) ==
    [s EXCEPT ![c[1]] = [rows |-> [@.rows EXCEPT ![c[2]] = 1], free |-> @.free - 1]]

\* getDirection going straight on without looking at the cell ahead
getDirectionStraightAhead(s, c, prev) ==
    LET straight == IF prev # Null THEN {prev} ELSE {}
        options  == {d \in dirs : IsFree(s, Add(c, d))}
    IN  straight \cup (IF options # {} THEN options ELSE {Zero})

\* getDirection looking only at the grid's edge, not at occupancy
getDirectionAnyNeighbour(s, c, prev) ==
    LET inGrid(d) == /\ Add(c, d)[1] \in DOMAIN s
                     /\ Add(c, d)[2] \in DOMAIN s[Add(c, d)[1]].rows
        options   == {d \in dirs : inGrid(d)}
    IN  IF options # {} THEN options ELSE {Zero}

\* getDirection([x, y], prev): the set of directions it can return
getDirection(s, c, prev) ==
    LET straight == IF prev # Null /\ IsFree(s, Add(c, prev)) THEN {prev} ELSE {}
        options  == {d \in dirs : IsFree(s, Add(c, d))}
    IN  straight \cup (IF options # {} THEN options ELSE {Zero})

\* the row pool of getStart for column col
RowPool(s, col) == {y \in DOMAIN s[col].rows : s[col].rows[y] = 0}

\* Accepted with the minimum forgotten: any walk of at least one step passes
AcceptedAnyLength(path) == Len(path) >= 1

\* the acceptance test of buildCircuit: circuit.path.length >= this.minLength
Accepted(path) == Len(path) >= MinLength

\* StepWalk recording the direction chosen for the next step instead of the
\* direction just walked
StepWalkNextDir(w, pos, next) ==
    [w EXCEPT !.pos = pos, !.path = Append(@, next), !.coords = Append(@, pos),
              !.dir = next, !.length = @ - 1]

\* the loop body of buildCircuit: advance to pos along w.dir, record the
\* step, keep `next` as the direction of the following iteration
StepWalk(w, pos, next) ==
    [w EXCEPT !.pos = pos, !.path = Append(@, w.dir), !.coords = Append(@, pos),
              !.dir = next, !.length = @ - 1]

\* SceneOnReturn releasing the cells of a walk that is not accepted
SceneReleased(s, w) ==
    IF Accepted(w.path) THEN s
    ELSE [x \in DOMAIN s |->
            [rows |-> [y \in DOMAIN s[x].rows |->
                          IF \E i \in DOMAIN w.coords : w.coords[i] = <<x, y>>
                          THEN 0 ELSE s[x].rows[y]],
             free |-> s[x].free]]

\* the scene when buildCircuit returns: what the walk marked stays marked,
\* whether the circuit or null is returned
SceneOnReturn(s, w) == s

\* circuit.length
CircuitLength(path) == Len(path) * CELL_SIZE

\* the Circuit object buildCircuit returns
MakeCircuit(w) ==
    [start  |-> w.start,
     path   |-> w.path,
     end    |-> w.pos,
     coords |-> w.coords,
     length |-> CircuitLength(w.path),
     size   |-> CELL_SIZE]

\* the sampled step count of buildCircuit
LengthChoices == {MinLength + k : k \in FloorRandom(MaxLength - MinLength)}

\* OnNullStart skipping the cycle only: continue
OnNullStartContinue == "loop"

\* populate(): if (!start) break
OnNullStart == "done"

GenInit ==
    /\ cols \in 0 .. MaxCols
    /\ rows \in 0 .. MaxRows
    /\ scene = [x \in 0 .. (cols - 1) |-> Column(rows)]
    /\ collection = <<>>
    /\ gpc = "loop"
    /\ attempts = Attempts
    /\ tries = 0
    /\ walk = NoWalk
    /\ discarded = {}
    /\ particle = Null
    /\ lookup = Null
    /\ particles = <<>>
    /\ create = CreateIdle
    /\ dom = Canvases
    /\ LoopIdle

\* populate(): while (attempts-- > 0)
PopulateLoop ==
    /\ gpc = "loop"
    /\ attempts' = attempts - 1
    /\ IF attempts > 0
       THEN gpc' = "getStart" /\ tries' = 0
       ELSE gpc' = "done" /\ UNCHANGED tries
    /\ UNCHANGED <<cols, rows, scene, collection, walk, discarded>>
    /\ UNCHANGED <<particleVars, loopVars>>

\* getStart() ran out of tries: return null, populate breaks
GetStartNull ==
    /\ gpc = "getStart"
    /\ tries >= GET_START_TRIES
    /\ gpc' = OnNullStart
    /\ UNCHANGED <<cols, rows, scene, collection, attempts, tries, walk, discarded>>
    /\ UNCHANGED <<particleVars, loopVars>>

\* one try of getStart() that does not return: the column is full
GetStartRetry ==
    /\ gpc = "getStart"
    /\ tries < GET_START_TRIES
    /\ \E col \in FloorRandom(cols) :
          /\ col \in DOMAIN scene
          /\ scene[col].free = 0 \/ RowPool(scene, col) = {}
    /\ tries' = tries + 1
    /\ UNCHANGED <<cols, rows, scene, collection, gpc, attempts, walk, discarded>>
    /\ UNCHANGED <<particleVars, loopVars>>

\* one try of getStart() on an empty scene array: scene[0] is undefined
GetStartThrow ==
    /\ gpc = "getStart"
    /\ tries < GET_START_TRIES
    /\ \E col \in FloorRandom(cols) : col \notin DOMAIN scene
    /\ gpc' = "threw"
    /\ UNCHANGED <<cols, rows, scene, collection, attempts, tries, walk, discarded>>
    /\ UNCHANGED <<particleVars, loopVars>>

\* getStart() returns a cell; populate computes the first direction and,
\* unless it is blocked, marks the start and enters buildCircuit
GetStartFound ==
    /\ gpc = "getStart"
    /\ tries < GET_START_TRIES
    /\ \E col \in FloorRandom(cols) :
          /\ col \in DOMAIN scene
          /\ scene[col].free # 0
          /\ \E row \in RowPool(scene, col) :
             \E dir \in getDirection(scene, <<col, row>>, Null) :
                IF isBlocked(dir)
                THEN /\ gpc' = "loop"
                     /\ UNCHANGED <<scene, walk>>
                ELSE \E length \in LengthChoices :
                     /\ scene' = markUsed(scene, <<col, row>>)
                     /\ walk' = [start |-> <<col, row>>, path |-> <<>>,
                                 coords |-> << <<col, row>> >>,
                                 pos |-> <<col, row>>, dir |-> dir,
                                 length |-> length]
                     /\ gpc' = "walk"
    /\ UNCHANGED <<cols, rows, collection, attempts, tries, discarded>>
    /\ UNCHANGED <<particleVars, loopVars>>

\* buildCircuit: one iteration of while (length-- > 0)
BuildCircuitStep ==
    /\ gpc = "walk"
    /\ walk.length > 0
    /\ ~isBlocked(walk.dir)
    /\ LET pos == Add(walk.pos, walk.dir)
           s1  == markUsed(scene, pos)
       IN  /\ scene' = s1
           /\ \E dir \in getDirection(s1, pos, walk.dir) :
                 walk' = StepWalk(walk, pos, dir)
    /\ UNCHANGED <<cols, rows, collection, gpc, attempts, tries, discarded>>
    /\ UNCHANGED <<particleVars, loopVars>>

\* buildCircuit: after the loop, accept or return null; populate pushes
BuildCircuitEnd ==
    /\ gpc = "walk"
    /\ walk.length <= 0 \/ isBlocked(walk.dir)
    /\ IF Accepted(walk.path)
       THEN /\ collection' = Append(collection, MakeCircuit(walk))
            /\ UNCHANGED discarded
       ELSE /\ discarded' = discarded \cup {walk.coords}
            /\ UNCHANGED collection
    /\ scene' = SceneOnReturn(scene, walk)
    /\ walk' = NoWalk
    /\ gpc' = "loop"
    /\ UNCHANGED <<cols, rows, attempts, tries>>
    /\ UNCHANGED <<particleVars, loopVars>>

GenNext ==
    \/ PopulateLoop
    \/ GetStartNull
    \/ GetStartRetry
    \/ GetStartThrow
    \/ GetStartFound
    \/ BuildCircuitStep
    \/ BuildCircuitEnd

SpecGen == GenInit /\ [][GenNext]_vars

\* ------------------------------------------------------------------------
\* Properties of the generator
\* ------------------------------------------------------------------------
\* the (circuit, position) pairs of the collection
CoordSlots == {<<i, a>> : i \in DOMAIN collection, a \in 1 .. (MaxLength + 1)} 

Slots == {sl \in CoordSlots : sl[2] \in DOMAIN collection[sl[1]].coords}

CellAt(sl) == collection[sl[1]].coords[sl[2]]

\* C1: no grid cell appears in the coordinate sequences (start cell included)
\* of two distinct accepted circuits, and no cell appears twice within one
\* circuit's coordinate sequence; this holds of the collection at every point
\* of populate(), in particular once populate() has finished.
C1_NoSharedCell ==
    \A s1 \in Slots : \A s2 \in Slots : s1 # s2 => CellAt(s1) # CellAt(s2)

\* populate() has finished with at least two circuits in the collection
C1_Witness == gpc = "done" /\ Len(collection) >= 2

\* C2: with minLength < maxLength every circuit of the collection has
\* minLength <= steps < maxLength, steps being circuit.path.length; a walk
\* that ended with fewer than minLength steps is not in the collection.
C2_StepBounds ==
    MinLength < MaxLength =>
        /\ \A i \in DOMAIN collection :
              /\ Len(collection[i].path) >= MinLength
              /\ Len(collection[i].path) < MaxLength
        /\ \A w \in discarded : \A i \in DOMAIN collection :
              collection[i].coords # w

\* a walk was discarded, and circuits of the smallest and of the largest
\* step count were accepted
C2_Witness ==
    /\ discarded # {}
    /\ \E i \in DOMAIN collection : Len(collection[i].path) = MinLength
    /\ \E i \in DOMAIN collection : Len(collection[i].path) = MaxLength - 1

\* C5: for every accepted circuit, coords has steps + 1 entries, starts at
\* the start cell, ends at the end cell, each entry is the previous one plus
\* the step direction, a unit direction, and length = steps * cellSize.
C5_CoordsFollowPath ==
    \A i \in DOMAIN collection :
        LET c == collection[i]
            steps == Len(c.path)
        IN  /\ Len(c.coords) = steps + 1
            /\ c.coords[1] = c.start
            /\ c.coords[steps + 1] = c.end
            /\ \A k \in 1 .. steps :
                  /\ c.path[k] \in dirs
                  /\ c.coords[k + 1] = Add(c.coords[k], c.path[k])
            /\ c.length = steps * c.size

\* an accepted circuit that turns a corner
C5_Witness ==
    \E i \in DOMAIN collection :
        \E k \in DOMAIN collection[i].path :
            k > 1 /\ collection[i].path[k] # collection[i].path[k - 1]

UsedCells == {<<x, y>> \in (0 .. (cols - 1)) \X (0 .. (rows - 1)) :
                 scene[x].rows[y] = 1}

\* C10: occupancy is append-only within a generation pass: a used cell stays
\* used, and every cell visited by a walk that buildCircuit discarded, its
\* start cell included, is occupied.
C10_AppendOnly ==
    /\ [][UsedCells \subseteq UsedCells']_vars
    /\ [](\A w \in discarded : \A k \in DOMAIN w : w[k] \in UsedCells)

\* a walk was discarded and populate() went on to accept a circuit
C10_Witness ==
    /\ discarded # {}
    /\ gpc = "done"
    /\ Len(collection) >= 1

Grid == (0 .. (cols - 1)) \X (0 .. (rows - 1))

\* the cells markUsed was called with: the cells of the walk in progress, of
\* the accepted circuits and of the discarded walks
MarkedCells ==
    {walk.coords[k] : k \in DOMAIN walk.coords}
    \cup {CellAt(sl) : sl \in Slots}
    \cup UNION {{w[k] : k \in DOMAIN w} : w \in discarded}

\* C11: cells outside the grid are blocked: every cell that was marked used
\* or appears in a circuit's coordinate sequence has 0 <= x < cols and
\* 0 <= y < rows.
C11_InGrid == MarkedCells \subseteq Grid

\* an accepted circuit that runs along the last column of a grid of at
\* least two columns
C11_Witness ==
    /\ cols >= 2
    /\ \E i \in DOMAIN collection :
          \A k \in DOMAIN collection[i].coords :
              collection[i].coords[k][1] = cols - 1

\* C17 as stated: a start pick that exhausts its tries gives up on that
\* cycle only, populate() goes on with its next attempt.
C17_ExhaustedPickContinues ==
    [][(gpc = "getStart" /\ tries >= GET_START_TRIES) => gpc' = "loop"]_vars

\* C17: a start pick that exhausts its tries ends populate(): the attempts
\* that remain are not made and the collection stays as it is.
C17_ExhaustedPickStops ==
    [][(gpc = "getStart" /\ tries >= GET_START_TRIES)
          => (gpc' = "done" /\ attempts' = attempts /\ collection' = collection)]_vars

\* populate() has ended on an exhausted pick with attempts left and a
\* circuit in the collection
C17_Witness ==
    /\ gpc = "done"
    /\ tries >= GET_START_TRIES
    /\ attempts > 0
    /\ Len(collection) >= 1

\* C18: populate() stops with attempts left only when no unoccupied cell
\* remains in any column, and stopping leaves the collection as it is.
C18_EarlyStopOnlyWhenSaturated ==
    /\ []((gpc = "done" /\ attempts > 0) => UsedCells = Grid)
    /\ [][(gpc # "done" /\ gpc' = "done") => collection' = collection]_vars

FreeCell(c) == c \in Grid /\ scene[c[1]].rows[c[2]] = 0

NoFreeNeighbour(c) == \A d \in dirs : ~FreeCell(Add(c, d))

\* C19: the direction getDirection returned for the walk's cell is the zero
\* vector exactly when no neighbour of the cell is a free cell of the grid,
\* and otherwise a unit direction to a free cell of the grid; a walk that
\* ends before its sampled step count ends on a cell without free neighbour
\* and marks nothing more.
C19_DirectionFree ==
    /\ [](gpc = "walk" =>
            IF NoFreeNeighbour(walk.pos)
            THEN walk.dir = Zero
            ELSE walk.dir \in dirs /\ FreeCell(Add(walk.pos, walk.dir)))
    /\ [][(gpc = "walk" /\ gpc' # "walk" /\ walk.length > 0)
             => (NoFreeNeighbour(walk.pos) /\ scene' = scene)]_vars

\* a walk of at least minLength steps that is blocked before its sampled
\* step count
C19_Witness ==
    /\ gpc = "walk"
    /\ isBlocked(walk.dir)
    /\ walk.length > 0
    /\ Len(walk.path) >= MinLength

\* populate() is not suspended: it is synchronous code
FairSpecGen == SpecGen /\ WF_vars(GenNext)

\* C22: populate() always terminates, for any grid size (0 columns or 0 rows
\* included) and any random choices: it returns after at most Attempts
\* attempts, each start pick making at most GET_START_TRIES tries and each
\* walk at most MaxLength - 1 steps.
C22_PopulateTerminates ==
    /\ [](/\ attempts \in -1 .. Attempts
          /\ tries \in 0 .. GET_START_TRIES
          /\ Len(walk.path) <= MaxLength - 1)
    /\ <>(gpc = "done")

\* the unoccupied rows of column x
FreeRows(x) == {y \in DOMAIN scene[x].rows : scene[x].rows[y] = 0}

\* C25: at every point of a generation pass each column's free count equals
\* the number of unoccupied cells of that column and is never negative, and
\* every change of the grid is markUsed applied to one unoccupied cell.
C25_FreeCountExact ==
    /\ [](\A x \in DOMAIN scene :
            /\ scene[x].free = Cardinality(FreeRows(x))
            /\ scene[x].free >= 0)
    /\ [][scene' # scene =>
            \E c \in Grid : FreeCell(c) /\ scene' = markUsed(scene, c)]_vars

\* a column of two or more rows has been filled, the last cell by a walk
\* that is still running
C25_Witness ==
    /\ gpc = "walk"
    /\ rows >= 2
    /\ Len(walk.path) >= 1
    /\ scene[walk.pos[1]].free = 0

\* ------------------------------------------------------------------------
\* class Particle, createParticles
\* ------------------------------------------------------------------------
\* Positions along a circuit (progress, velocity, x, y) are counted in
\* hundredths of a pixel, and the arithmetic on them is exact.
Units(px) == px * 100

\* JavaScript's %: the result has the sign of the dividend
JsMod(a, b) == IF a >= 0 THEN a % b ELSE -((-a) % b)

\* the walk buildCircuit makes from `start` when getDirection returns the
\* directions ds one after the other
RECURSIVE Walked(_, _)
Walked(w, ds) ==
    IF ds = <<>> THEN w
    ELSE LET rest == Tail(ds)
         IN  Walked(StepWalk(w, Add(w.pos, w.dir),
                             IF rest = <<>> THEN w.dir ELSE Head(rest)), rest)

WalkFrom(start, ds) ==
    Walked([start |-> start, path |-> <<>>, coords |-> <<start>>, pos |-> start,
            dir |-> Head(ds), length |-> Len(ds)], ds)

\* a staircase of `steps` steps from the top left cell: right, down, right, ...
Staircase(steps) ==
    [k \in 1 .. steps |-> IF k % 2 = 1 THEN <<1, 0>> ELSE <<0, 1>>]

SampleCircuit(steps) == MakeCircuit(WalkFrom(<<0, 0>>, Staircase(steps)))

RECURSIVE MarkAll(_, _)
MarkAll(s, cells) ==
    IF cells = <<>> THEN s ELSE MarkAll(markUsed(s, Head(cells)), Tail(cells))

\* Bounces with strict comparisons: landing exactly on an end does not bounce
BouncesStrict(progress, length) == progress < 0 \/ progress > length

\* Bounces at the far end only
BouncesFarEnd(progress, length) == progress >= length

\* this.progress <= 0 || this.progress >= length
Bounces(progress, length) == progress <= 0 \/ progress >= length

\* BounceProgress applying the negated velocity twice
BounceProgressTwice(progress, velocity) == progress + 2 * velocity

\* BounceProgress without the second application of the velocity
BounceProgressKept(progress, velocity) == progress

\* this.progress += this.velocity, after the velocity was negated
BounceProgress(progress, velocity) == progress + velocity

\* new Particle(circuit, velocity, offset)
NewParticle(circuit, velocity, offset) ==
    [circuit |-> circuit, velocity |-> velocity, progress |-> offset,
     x |-> 0, y |-> 0]

\* const index = Math.floor(this.progress / size)
SegmentIndex(progress, size) == progress \div Units(size)

\* Particle.update(): the particle after the call.  When path[index] is
\* undefined the destructuring throws and x, y keep their values.
ParticleUpdate(p) ==
    LET c        == p.circuit
        advanced == p.progress + p.velocity
        bounce   == Bounces(advanced, Units(c.length))
        velocity == IF bounce THEN -p.velocity ELSE p.velocity
        progress == IF bounce THEN BounceProgress(advanced, velocity) ELSE advanced
        index    == SegmentIndex(progress, c.size)
        offset   == JsMod(progress, Units(c.size))
    IN  IF (index + 1) \in DOMAIN c.path /\ (index + 1) \in DOMAIN c.coords
        THEN [p EXCEPT !.velocity = velocity, !.progress = progress,
                       !.x = Units(c.coords[index + 1][1] * c.size)
                             + Units(c.size) \div 2 + c.path[index + 1][1] * offset,
                       !.y = Units(c.coords[index + 1][2] * c.size)
                             + Units(c.size) \div 2 + c.path[index + 1][2] * offset]
        ELSE [p EXCEPT !.velocity = velocity, !.progress = progress]

\* the index update() computes for p, whether the lookup throws, and the
\* progress and velocity p had when update() was called
UpdateLookup(p) ==
    LET q     == ParticleUpdate(p)
        index == SegmentIndex(q.progress, q.circuit.size)
    IN  [index |-> index,
         threw |-> ~((index + 1) \in DOMAIN q.circuit.path
                     /\ (index + 1) \in DOMAIN q.circuit.coords),
         progress |-> p.progress,
         velocity |-> p.velocity]

\* createParticles: PARTICLE_SPEED_MIN + Math.random() * (MAX - MIN)
SpeedChoices == PARTICLE_SPEED_MIN .. PARTICLE_SPEED_MAX

\* createParticles: Math.random() * circuit.length
OffsetChoices(circuit) == 0 .. (Units(circuit.length) - 1)

\* the state after generation: one accepted circuit in the collection
ParticleInit ==
    /\ cols = MaxCols
    /\ rows = MaxRows
    /\ \E steps \in MinLength .. (MaxLength - 1) :
          /\ collection = <<SampleCircuit(steps)>>
          /\ scene = MarkAll([x \in 0 .. (MaxCols - 1) |-> Column(MaxRows)],
                             SampleCircuit(steps).coords)
    /\ gpc = "done"
    /\ attempts = 0
    /\ tries = 0
    /\ walk = NoWalk
    /\ discarded = {}
    /\ particle = Null
    /\ lookup = Null
    /\ particles = <<>>
    /\ create = CreateIdle
    /\ dom = Canvases
    /\ LoopIdle

\* createParticles: particles.add(new Particle(circuit, velocity, offset))
CreateParticle ==
    /\ gpc = "done"
    /\ particle = Null
    /\ \E i \in DOMAIN collection :
       \E velocity \in SpeedChoices :
       \E offset \in OffsetChoices(collection[i]) :
          particle' = NewParticle(collection[i], velocity, offset)
    /\ UNCHANGED <<lookup, particles, create>>
    /\ UNCHANGED <<genVars, loopVars>>

\* Particles.update(): p.update() for the particle
Update ==
    /\ particle # Null
    /\ IF lookup = Null THEN TRUE ELSE ~lookup.threw
    /\ particle' = ParticleUpdate(particle)
    /\ lookup' = UpdateLookup(particle)
    /\ UNCHANGED <<particles, create, genVars, loopVars>>

ParticleNext == CreateParticle \/ Update

SpecParticle == ParticleInit /\ [][ParticleNext]_vars

\* C3: for every particle created by createParticles, after any number of
\* update() calls the segment index floor(progress / cellSize) is an integer
\* in [0, steps - 1], a valid index into circuit.path and circuit.coords.
C3_SegmentIndexValid ==
    lookup # Null =>
        /\ lookup.index \in 0 .. (Len(particle.circuit.path) - 1)
        /\ ~lookup.threw

\* a particle that has just bounced off the far end of its circuit, and is
\* on the last segment
C3_Witness ==
    /\ lookup # Null
    /\ particle.velocity < 0
    /\ particle.progress + (-particle.velocity) >= Units(particle.circuit.length)
    /\ lookup.index = Len(particle.circuit.path) - 1

\* C15: on a tick that triggers a bounce the velocity is negated and the
\* negated velocity is applied once to the advanced progress, so progress
\* after the tick equals progress before it; on a tick without bounce
\* progress changes by exactly velocity and velocity is unchanged.
C15_BounceKeepsProgress ==
    lookup # Null =>
        LET advanced == lookup.progress + lookup.velocity
        IN  IF advanced <= 0 \/ advanced >= Units(particle.circuit.length)
            THEN /\ particle.velocity = -lookup.velocity
                 /\ particle.progress = advanced + particle.velocity
                 /\ particle.progress = lookup.progress
            ELSE /\ particle.velocity = lookup.velocity
                 /\ particle.progress = lookup.progress + lookup.velocity

\* a particle whose last tick bounced off the near end
C15_Witness ==
    /\ lookup # Null
    /\ lookup.velocity < 0
    /\ lookup.progress + lookup.velocity <= 0
    /\ particle.velocity > 0

\* C16 as claimed: update() negates the velocity exactly when the advanced
\* progress lies outside the closed interval [0, pathLength]; an advance
\* landing exactly on 0 or on pathLength does not bounce.
C16_BounceOutsideClosed ==
    lookup # Null =>
        LET advanced == lookup.progress + lookup.velocity
        IN  (particle.velocity = -lookup.velocity)
                <=> (advanced < 0 \/ advanced > Units(particle.circuit.length))

\* C16 amended: update() negates the velocity exactly when the advanced
\* progress is <= 0 or >= pathLength; an advance landing exactly on 0 or on
\* pathLength bounces, only one strictly inside (0, pathLength) does not.
C16_BounceOutsideOpen ==
    lookup # Null =>
        LET advanced == lookup.progress + lookup.velocity
        IN  (particle.velocity = -lookup.velocity)
                <=> (advanced <= 0 \/ advanced >= Units(particle.circuit.length))

\* a tick that advanced exactly onto pathLength and negated the velocity
C16_Witness ==
    /\ lookup # Null
    /\ particle.velocity = -lookup.velocity
    /\ lookup.progress + lookup.velocity = Units(particle.circuit.length)

\* velocities of any magnitude and sign for a circuit of the given length:
\* zero, sub-pixel, the configured range, about a cell, about the whole
\* length and several lengths
AnyVelocity(length) ==
    LET magnitudes == {0, 1, PARTICLE_SPEED_MIN, PARTICLE_SPEED_MAX,
                       Units(CELL_SIZE) - 1, Units(length) - 1, Units(length),
                       Units(length) + 1, 2 * Units(length) + 1,
                       5 * Units(length) + 3}
    IN  magnitudes \cup {-m : m \in magnitudes}

\* new Particle(circuit, velocity, offset) with any velocity and an offset
\* in [0, circuit.length)
CreateAnyParticle ==
    /\ gpc = "done"
    /\ particle = Null
    /\ \E i \in DOMAIN collection :
       \E velocity \in AnyVelocity(collection[i].length) :
       \E offset \in OffsetChoices(collection[i]) :
          particle' = NewParticle(collection[i], velocity, offset)
    /\ UNCHANGED <<lookup, particles, create>>
    /\ UNCHANGED <<genVars, loopVars>>

ParticleAnyNext == CreateAnyParticle \/ Update

SpecParticleAny == ParticleInit /\ [][ParticleAnyNext]_vars

\* C4: for every particle whose initial progress lies in [0, pathLength),
\* after every update() call progress lies within [0, pathLength], whatever
\* the magnitude of its velocity.
C4_ProgressInRange ==
    lookup # Null =>
        /\ particle.progress >= 0
        /\ particle.progress <= Units(particle.circuit.length)

\* an updated particle that moves by more than the whole path length per
\* tick and has bounced
C4_Witness ==
    /\ lookup # Null
    /\ particle.velocity < -Units(particle.circuit.length)
    /\ particle.progress > 0

\* ------------------------------------------------------------------------
\* createParticles, one iteration at a time
\* ------------------------------------------------------------------------
\* Math.random(): the numerator r of the value r / RandDen in [0, 1)
Random == 0 .. (RandDen - 1)

\* the draws used for velocity and offset, which are monotone in the draw
RandomEnds == {0, RandDen - 1}

\* Math.ceil(Math.random() * 3)
ParticleCount(r) == (3 * r + RandDen - 1) \div RandDen

\* PARTICLE_SPEED_MIN + Math.random() * (PARTICLE_SPEED_MAX - PARTICLE_SPEED_MIN)
ParticleVelocity(r) ==
    PARTICLE_SPEED_MIN + (r * (PARTICLE_SPEED_MAX - PARTICLE_SPEED_MIN)) \div RandDen

\* Math.random() * circuit.length
ParticleOffset(r, circuit) == (r * Units(circuit.length)) \div RandDen

\* a second circuit of minLength steps, disjoint from the staircase: from
\* the cell below the top left one, down and then right
SecondCircuit ==
    MakeCircuit(WalkFrom(<<0, 1>>,
        [k \in 1 .. MinLength |-> IF k = 1 THEN <<0, 1>> ELSE <<1, 0>>]))

\* the state after generation: one or two accepted circuits in the collection
CreateInit ==
    /\ cols = MaxCols
    /\ rows = MaxRows
    /\ \E steps \in MinLength .. (MaxLength - 1) :
       \E n \in 1 .. 2 :
          /\ collection = SubSeq(<<SampleCircuit(steps), SecondCircuit>>, 1, n)
          /\ scene = MarkAll([x \in 0 .. (MaxCols - 1) |-> Column(MaxRows)],
                             IF n = 1 THEN SampleCircuit(steps).coords
                             ELSE SampleCircuit(steps).coords \o SecondCircuit.coords)
    /\ gpc = "done"
    /\ attempts = 0
    /\ tries = 0
    /\ walk = NoWalk
    /\ discarded = {}
    /\ particle = Null
    /\ lookup = Null
    /\ particles = <<>>
    /\ create = CreateIdle
    /\ dom = Canvases
    /\ LoopIdle

\* const particles = new Particles(width, height); the for-of loop starts
CreateParticlesBegin ==
    /\ create.pc = "idle"
    /\ particles' = <<>>
    /\ create' = [pc |-> "circuit", circuit |-> 1, count |-> 0, i |-> 0]
    /\ UNCHANGED <<particle, lookup, genVars, loopVars>>

\* for (const circuit of circuits.collection): const count = ...
CreateParticlesCount ==
    /\ create.pc = "circuit"
    /\ create.circuit <= Len(collection)
    /\ \E r \in Random :
          create' = [create EXCEPT !.pc = "particle", !.count = ParticleCount(r),
                                   !.i = 0]
    /\ UNCHANGED <<particles, particle, lookup, genVars, loopVars>>

\* for (let i = 0; i < count; i++): particles.add(new Particle(...))
CreateParticlesAdd ==
    /\ create.pc = "particle"
    /\ create.i < create.count
    /\ \E rv \in RandomEnds :
       \E ro \in RandomEnds :
          particles' = Append(particles,
              NewParticle(collection[create.circuit], ParticleVelocity(rv),
                          ParticleOffset(ro, collection[create.circuit])))
    /\ create' = [create EXCEPT !.i = create.i + 1]
    /\ UNCHANGED <<particle, lookup, genVars, loopVars>>

\* i < count is false: on to the next circuit
CreateParticlesNext ==
    /\ create.pc = "particle"
    /\ create.i >= create.count
    /\ create' = [create EXCEPT !.pc = "circuit", !.circuit = create.circuit + 1]
    /\ UNCHANGED <<particles, particle, lookup, genVars, loopVars>>

\* the collection is exhausted: return particles
CreateParticlesReturn ==
    /\ create.pc = "circuit"
    /\ create.circuit > Len(collection)
    /\ create' = [create EXCEPT !.pc = "done"]
    /\ UNCHANGED <<particles, particle, lookup, genVars, loopVars>>

CreateNext ==
    \/ CreateParticlesBegin
    \/ CreateParticlesCount
    \/ CreateParticlesAdd
    \/ CreateParticlesNext
    \/ CreateParticlesReturn

SpecCreate == CreateInit /\ [][CreateNext]_vars

\* the particles bound to circuit number c of the collection
BoundTo(c) == {k \in DOMAIN particles : particles[k].circuit = collection[c]}

\* C12: after createParticles every circuit of the collection has between 1
\* and 3 particles bound to it, each particle is bound to exactly one
\* circuit of the collection, its initial progress is in [0, pathLength)
\* and its initial speed is within [PARTICLE_SPEED_MIN, PARTICLE_SPEED_MAX].
C12_OneToThreePerCircuit ==
    create.pc = "done" =>
        /\ \A c \in DOMAIN collection : Cardinality(BoundTo(c)) \in 1 .. 3
        /\ \A k \in DOMAIN particles :
              /\ Cardinality({c \in DOMAIN collection : k \in BoundTo(c)}) = 1
              /\ particles[k].progress >= 0
              /\ particles[k].progress < Units(particles[k].circuit.length)
              /\ particles[k].velocity >= PARTICLE_SPEED_MIN
              /\ particles[k].velocity <= PARTICLE_SPEED_MAX

\* ------------------------------------------------------------------------
\* init, startLoop, the resize listener
\* ------------------------------------------------------------------------
\* Every handler runs to completion before the next one starts; the
\* operators below take the state a handler sees and give the state it leaves.

\* window.innerWidth, in pixels: narrower than a cell, and three cells wide
Widths == {5, 30}

FrameState ==
    [animationFrameId |-> animationFrameId, rafPending |-> rafPending,
     rafIds |-> rafIds, inits |-> inits, loopGen |-> loopGen,
     systems |-> systems, visible |-> visible, rebuild |-> rebuild,
     lastFrame |-> lastFrame, outcome |-> outcome, backdrop |-> backdrop,
     staticDraws |-> staticDraws, blits |-> blits]

SetFrameState(st) ==
    /\ animationFrameId' = st.animationFrameId
    /\ rafPending' = st.rafPending
    /\ rafIds' = st.rafIds
    /\ inits' = st.inits
    /\ loopGen' = st.loopGen
    /\ systems' = st.systems
    /\ visible' = st.visible
    /\ rebuild' = st.rebuild
    /\ lastFrame' = st.lastFrame
    /\ outcome' = st.outcome
    /\ backdrop' = st.backdrop
    /\ staticDraws' = st.staticDraws
    /\ blits' = st.blits

TimerState == [resizeTimeout |-> resizeTimeout, timers |-> timers, timerIds |-> timerIds]

SetTimerState(ts) ==
    /\ resizeTimeout' = ts.resizeTimeout
    /\ timers' = ts.timers
    /\ timerIds' = ts.timerIds

\* cancelAnimationFrame(id)
cancelAnimationFrame(st, id) ==
    [st EXCEPT !.rafPending = {r \in @ : r.id # id}]

\* animationFrameId = requestAnimationFrame(loop), loop being the closure of
\* initialization g
requestAnimationFrame(st, g) ==
    [st EXCEPT !.rafIds = @ + 1,
               !.rafPending = @ \cup {[id |-> st.rafIds + 1, gen |-> g]},
               !.animationFrameId = st.rafIds + 1]

\* particles.update() on the particle set of initialization g
particlesUpdate(st, g) == [st EXCEPT !.systems[g].tick = @ + 1]

\* particles.draw(): the offscreen canvas shows the current positions
particlesDraw(st, g) == [st EXCEPT !.systems[g].raster = st.systems[g].tick]

\* ctx.clearRect(...); ctx.drawImage(particles.canvas, 0, 0)
blit(st, g) ==
    [st EXCEPT !.visible = [gen |-> g, tick |-> st.systems[g].raster],
               !.blits = @ + 1]

\* drawStaticBackground(circuitCtx, ...): black, the dots, the circuits of
\* initialization g
drawStaticBackground(st, g) ==
    [st EXCEPT !.backdrop = g, !.staticDraws = @ + 1]

\* loopBody compositing the static background too
loopBodyWithBackground(st, g) ==
    requestAnimationFrame(
        blit(drawStaticBackground(particlesDraw(particlesUpdate(st, g), g), g), g), g)

\* loopBody rasterizing before it updates the positions
loopBodyDrawFirst(st, g) ==
    requestAnimationFrame(blit(particlesUpdate(particlesDraw(st, g), g), g), g)

\* the body of loop(): update, draw, blit, request the next frame
loopBody(st, g) ==
    requestAnimationFrame(blit(particlesDraw(particlesUpdate(st, g), g), g), g)

\* loop() with the record of what the run did
loop(st, g, queued) ==
    LET done == loopBody(st, g)
    IN  [done EXCEPT !.lastFrame =
            [gen    |-> g,
             latest |-> st.loopGen,
             queued |-> queued,
             clean  |-> st.systems[g].raster = st.systems[g].tick,
             tick   |-> done.systems[g].tick,
             raster |-> done.systems[g].raster,
             shown  |-> done.visible,
             statics |-> done.staticDraws - st.staticDraws,
             blits  |-> done.blits - st.blits]]

\* startLoop without its cancelAnimationFrame
startLoopNoCancel(st, g) ==
    loop([st EXCEPT !.loopGen = g], g, FALSE)

\* startLoop(ctx, particles) for the particles of initialization g
startLoop(st, g) ==
    loop(cancelAnimationFrame([st EXCEPT !.loopGen = g], st.animationFrameId),
         g, FALSE)

\* init(): the canvases are sized, which clears them; new Dots and
\* new Circuits begin
initSized(st, trigger) ==
    [st EXCEPT !.inits = @ + 1,
               !.visible = [gen |-> 0, tick |-> 0],
               !.backdrop = 0,
               !.rebuild = [trigger |-> trigger,
                            stale |-> Cardinality(st.rafPending)]]

\* init() after new Circuits returned: createParticles,
\* drawStaticBackground, startLoop
initBuilt(s1, trigger) ==
    LET g == s1.inits
    IN  startLoop(
            drawStaticBackground(
                [s1 EXCEPT !.systems = (g :> [tick |-> 0, raster |-> 0]) @@ @,
                           !.outcome = [trigger |-> trigger, error |-> "none"]],
                g),
            g)

\* init() from the first assignment to a canvas on: size the canvases, build
\* dots, circuits and particles, draw the static background, start the loop.
\* With no column in the grid populate() throws (GetStartThrow) and init()
\* ends there.
initCanvases(st, trigger, width) ==
    LET s1 == initSized(st, trigger)
    IN  IF width \div CELL_SIZE = 0
        THEN [s1 EXCEPT !.outcome = [trigger |-> trigger, error |-> "TypeError"]]
        ELSE initBuilt(s1, trigger)

\* init returning without an error when a canvas is missing
initSilent(st, trigger, width) ==
    IF dom = Canvases
    THEN initCanvases(st, trigger, width)
    ELSE [st EXCEPT !.inits = @ + 1,
                    !.outcome = [trigger |-> trigger, error |-> "none"]]

\* init(): getElementById gives null for a canvas the document does not
\* have, and the assignment to its width throws a TypeError
init(st, trigger, width) ==
    IF dom = Canvases
    THEN initCanvases(st, trigger, width)
    ELSE [st EXCEPT !.inits = @ + 1,
                    !.outcome = [trigger |-> trigger, error |-> "TypeError"]]

\* resizeCallback without its cancelAnimationFrame
resizeCallbackNoCancel(st, width) ==
    IF dom = Canvases
    THEN init(st, "resize", width)
    ELSE [st EXCEPT !.outcome = [trigger |-> "resize", error |-> "TypeError"]]

\* the callback of the resize timer: cancel the frame request, size the
\* canvases (a TypeError when one is missing), init()
resizeCallback(st, width) ==
    LET cancelled == cancelAnimationFrame(st, st.animationFrameId)
    IN  IF dom = Canvases
        THEN init(cancelled, "resize", width)
        ELSE [cancelled EXCEPT !.outcome = [trigger |-> "resize",
                                            error |-> "TypeError"]]

\* clearTimeout(id)
clearTimeout(ts, id) == [ts EXCEPT !.timers = {t \in @ : t.id # id}]

\* resizeTimeout = setTimeout(callback, 200)
setTimeout(ts) ==
    [ts EXCEPT !.timerIds = @ + 1,
               !.timers = @ \cup {[id |-> ts.timerIds + 1, age |-> 0]},
               !.resizeTimeout = ts.timerIds + 1]

\* resizeListener without its clearTimeout
resizeListenerNoClear(ts) == setTimeout(ts)

\* the resize listener
resizeListener(ts) == setTimeout(clearTimeout(ts, ts.resizeTimeout))

\* a timer whose delay has elapsed; its callback runs before time advances
\* and before an event that arrives later is handled
Expired(t) == t.age >= DEBOUNCE_MS

Min(a, b) == IF a <= b THEN a ELSE b

LoopInit ==
    /\ cols = 0
    /\ rows = 0
    /\ scene = <<>>
    /\ collection = <<>>
    /\ gpc = "idle"
    /\ attempts = 0
    /\ tries = 0
    /\ walk = NoWalk
    /\ discarded = {}
    /\ particle = Null
    /\ lookup = Null
    /\ particles = <<>>
    /\ create = CreateIdle
    /\ dom \in SUBSET Canvases
    /\ LoopIdle

\* window.onload = init
Load ==
    /\ ~loaded
    /\ loaded' = TRUE
    /\ \E width \in Widths : SetFrameState(init(FrameState, "load", width))
    /\ UNCHANGED <<resizeTimeout, timers, timerIds, resizes, sinceResize,
                   reinits, reinitDelay, missedBurst, burstLen>>
    /\ UNCHANGED <<genVars, particleVars, dom, faceVars, drawVars>>

\* a resize event is dispatched
Resize ==
    /\ resizes < MaxResizes
    /\ \A t \in timers : ~Expired(t)
    /\ SetTimerState(resizeListener(TimerState))
    /\ resizes' = resizes + 1
    /\ sinceResize' = 0
    /\ reinits' = 0
    /\ missedBurst' = (missedBurst
                       \/ (resizes > 0 /\ sinceResize >= DEBOUNCE_MS /\ reinits = 0))
    /\ burstLen' = IF resizes = 0 \/ sinceResize >= DEBOUNCE_MS THEN 1
                   ELSE burstLen + 1
    /\ UNCHANGED <<loaded, reinitDelay>>
    /\ UNCHANGED <<frameVars, genVars, particleVars, dom, faceVars, drawVars>>

\* TickMs milliseconds pass
AdvanceTime ==
    /\ \A t \in timers : ~Expired(t)
    /\ timers # {} \/ sinceResize < DEBOUNCE_MS
    /\ timers' = {[t EXCEPT !.age = @ + TickMs] : t \in timers}
    /\ sinceResize' = Min(sinceResize + TickMs, DEBOUNCE_MS)
    /\ UNCHANGED <<resizeTimeout, timerIds, loaded, resizes, reinits,
                   reinitDelay, missedBurst, burstLen>>
    /\ UNCHANGED <<frameVars, genVars, particleVars, dom, faceVars, drawVars>>

\* the resize timer fires
ResizeTimeoutFires ==
    /\ \E t \in timers :
          /\ Expired(t)
          /\ timers' = timers \ {t}
    /\ \E width \in Widths : SetFrameState(resizeCallback(FrameState, width))
    /\ reinits' = reinits + 1
    /\ reinitDelay' = sinceResize
    /\ UNCHANGED <<resizeTimeout, timerIds, loaded, resizes, sinceResize,
                   missedBurst, burstLen>>
    /\ UNCHANGED <<genVars, particleVars, dom, faceVars, drawVars>>

\* a requested frame callback runs
Frame ==
    /\ rafIds < MaxFrames
    /\ \E r \in rafPending :
          SetFrameState(loop([FrameState EXCEPT !.rafPending = @ \ {r}], r.gen, TRUE))
    /\ UNCHANGED <<timerVars, genVars, particleVars, dom, faceVars, drawVars>>

LoopNext ==
    \/ Load
    \/ Resize
    \/ AdvanceTime
    \/ ResizeTimeoutFires
    \/ Frame

SpecLoop == LoopInit /\ [][LoopNext]_vars

\* time passes and a due timer fires
FairSpecLoop ==
    SpecLoop /\ WF_vars(AdvanceTime) /\ WF_vars(ResizeTimeoutFires)

\* C6 as stated: no rebuild of the grid, circuits or particles begins while
\* a frame request of a previous initialization is pending, whichever event
\* runs init().
C6_CancelBeforeEveryRebuild == rebuild.stale = 0

\* C6: every reinitialization run by the callback of the resize timer is
\* preceded by the cancellation of the pending frame request: no rebuild
\* started by that callback begins while a frame request is pending.
C6_CancelBeforeResizeRebuild ==
    rebuild.trigger = "resize" => rebuild.stale = 0

\* the resize callback has reinitialized while an earlier loop was running
C6_Witness ==
    /\ rebuild.trigger = "resize"
    /\ loopGen >= 2
    /\ loopGen = inits

\* C7: at most one frame request is pending, it belongs to the
\* initialization whose loop started last, and every run of loop() updates
\* the particle set of the initialization whose loop had started last.
C7_NoStaleFrame ==
    /\ Cardinality(rafPending) <= 1
    /\ \A r \in rafPending : r.gen = loopGen
    /\ lastFrame.gen = lastFrame.latest

\* a frame callback of a second or later initialization has run
C7_Witness ==
    /\ lastFrame.queued
    /\ lastFrame.gen >= 2

C9_FrameOrder ==
    lastFrame.gen # 0 =>
        /\ lastFrame.clean
        /\ lastFrame.raster = lastFrame.tick
        /\ lastFrame.shown = [gen |-> lastFrame.gen, tick |-> lastFrame.tick]

\* a frame callback has run after an earlier frame of the same loop
C9_Witness ==
    /\ lastFrame.queued
    /\ lastFrame.tick >= 2

\* no circuits or particles were generated and no frame loop was started
NothingBuilt ==
    /\ systems = <<>>
    /\ rebuild = NoRebuild
    /\ loopGen = 0
    /\ rafPending = {}
    /\ staticDraws = 0

\* C13 as claimed: if either drawing surface is missing when init runs,
\* initialization aborts silently: no error is raised, no circuits or
\* particles are generated and no frame loop is started.
C13_MissingSurfaceSilent ==
    (dom # Canvases /\ outcome.trigger # "none") =>
        (outcome.error = "none" /\ NothingBuilt)

\* C13 amended: if either drawing surface is missing, every run of init and
\* of the resize callback ends in an uncaught TypeError; no circuits or
\* particles are generated and no frame loop is started.
C13_MissingSurfaceThrows ==
    (dom # Canvases /\ outcome.trigger # "none") =>
        (outcome.error = "TypeError" /\ NothingBuilt)

\* only particleCanvas is missing, init has run at load and the resize
\* callback after it
C13_Witness ==
    /\ dom = {"circuitCanvas"}
    /\ inits = 1
    /\ outcome.trigger = "resize"

\* C20 as claimed: every frame composites both the static background
\* surface and the particle surface onto the visible surface.
C20_FrameCompositesBoth ==
    lastFrame.gen # 0 => (lastFrame.statics >= 1 /\ lastFrame.blits >= 1)

\* C20 amended: every frame draws the particle surface, and only it, once
\* onto particleCanvas; the static background is drawn onto circuitCanvas
\* once per init() that built its particles, never by a frame, and
\* circuitCanvas never shows the background of another initialization than
\* the one whose loop is running.
C20_FrameBlitsParticlesOnly ==
    /\ lastFrame.gen # 0 => (lastFrame.statics = 0 /\ lastFrame.blits = 1)
    /\ staticDraws = Cardinality(DOMAIN systems)
    /\ \A r \in rafPending : backdrop \in {0, r.gen}

\* a frame callback has run in the loop of a second or later initialization
C20_Witness ==
    /\ lastFrame.queued
    /\ lastFrame.gen >= 2
    /\ staticDraws >= 2

\* ------------------------------------------------------------------------
\* init() with the Circuits constructor step by step: populate(), draw()
\* ------------------------------------------------------------------------
\* what drawCircuitPaths and drawCircuitEndpoints put on the canvas: per
\* circuit the polyline from its start along its path, and a ring on its
\* start and on its end
Raster(coll) ==
    [lines |-> {<<coll[i].start, coll[i].path>> : i \in DOMAIN coll},
     rings |-> {coll[i].start : i \in DOMAIN coll}
               \cup {coll[i].end : i \in DOMAIN coll}]

\* DrawDue redrawing the circuits while the loop runs as well
DrawDueWhileRunning(pc) == pc \in {"done", "running"}

\* the constructor of Circuits: this.populate(); this.draw();
DrawDue(pc) == pc = "done"

\* the script has run, no event has been dispatched yet
BuildInit == LoopInit /\ dom = Canvases

\* init() is called, by the load event first and by the resize callback
\* (which cancels the frame request) later, in a window narrower than a
\* cell or BuildCols cells wide; new Circuits(...) sets its fields and calls
\* populate()
InitEnter ==
    /\ inits < MaxInits
    /\ gpc \in {"idle", "running", "threw"}
    /\ cols' \in {0, BuildCols}
    /\ rows' = BuildRows
    /\ scene' = [x \in 0 .. (cols' - 1) |-> Column(rows')]
    /\ collection' = <<>>
    /\ gpc' = "loop"
    /\ attempts' = Attempts
    /\ tries' = 0
    /\ walk' = NoWalk
    /\ discarded' = {}
    /\ IF inits = 0
       THEN SetFrameState(initSized(FrameState, "load"))
       ELSE SetFrameState(initSized(cancelAnimationFrame(FrameState, animationFrameId),
                                    "resize"))
    /\ canvas' = Null
    /\ draws' = Append(draws, 0)
    /\ UNCHANGED <<particleVars, timerVars, dom, faceVars>>

\* Circuits.draw(): rasterize the collection on a new offscreen canvas
CircuitsDraw ==
    /\ DrawDue(gpc)
    /\ canvas' = Raster(collection)
    /\ draws' = [draws EXCEPT ![inits] = @ + 1]
    /\ gpc' = IF gpc = "done" THEN "drawn" ELSE gpc
    /\ UNCHANGED <<cols, rows, scene, collection, attempts, tries, walk, discarded>>
    /\ UNCHANGED <<particleVars, frameVars, timerVars, dom, faceVars>>

\* init() after new Circuits(...) returned: particles, static background,
\* startLoop with its first loop()
InitFinish ==
    /\ gpc = "drawn"
    /\ gpc' = "running"
    /\ SetFrameState(initBuilt(FrameState, rebuild.trigger))
    /\ UNCHANGED <<cols, rows, scene, collection, attempts, tries, walk, discarded>>
    /\ UNCHANGED <<particleVars, timerVars, dom, faceVars, drawVars>>

\* a requested frame callback runs; none can run inside init()
InitFrame == gpc = "running" /\ Frame

BuildNext ==
    \/ InitEnter
    \/ GenNext
    \/ CircuitsDraw
    \/ InitFinish
    \/ InitFrame

SpecBuild == BuildInit /\ [][BuildNext]_vars

LowFaces == {"idle", "look_left"}
HighFaces == {"happy"}

\* the `ms` arguments callers pass
Durations == {100, 200}

FaceState ==
    [lockUntil |-> lockUntil, currentFace |-> currentFace,
     facesReady |-> facesReady, faceTimer |-> faceTimer,
     faceTimers |-> faceTimers, faceTimerIds |-> faceTimerIds]

SetFaceState(fs) ==
    /\ lockUntil' = fs.lockUntil
    /\ currentFace' = fs.currentFace
    /\ facesReady' = fs.facesReady
    /\ faceTimer' = fs.faceTimer
    /\ faceTimers' = fs.faceTimers
    /\ faceTimerIds' = fs.faceTimerIds

\* blitFace(name): nothing before the assets are ready
blitFace(fs, name) ==
    IF ~fs.facesReady THEN fs ELSE [fs EXCEPT !.currentFace = name]

\* setFace(name)
setFace(fs, name) == blitFace(fs, name)

\* flashFace(name, ms) called when performance.now() is t
flashFace(fs, name, ms, t) ==
    LET cleared == [fs EXCEPT !.faceTimers = {x \in @ : x.id # fs.faceTimer}]
        shown   == blitFace(cleared, name)
    IN  [shown EXCEPT !.faceTimerIds = @ + 1,
                      !.faceTimers = @ \cup {[id |-> fs.faceTimerIds + 1,
                                              due |-> t + ms]},
                      !.faceTimer = fs.faceTimerIds + 1]

\* setFaceLow applying the update whatever the lock
setFaceLowUnlocked(fs, name, t) == setFace(fs, name)

\* setFaceLow(name) called when performance.now() is t
setFaceLow(fs, name, t) ==
    IF t >= fs.lockUntil THEN setFace(fs, name) ELSE fs

\* flashFaceHigh(name, ms) called when performance.now() is t
flashFaceHigh(fs, name, ms, t) ==
    flashFace([fs EXCEPT !.lockUntil = t + ms], name, ms, t)

\* lockFace(ms) called when performance.now() is t
lockFace(fs, ms, t) == [fs EXCEPT !.lockUntil = t + ms]

\* clearLock()
clearLock(fs) == [fs EXCEPT !.lockUntil = 0]

\* the script modules have run; the atlas and the images are still loading
FaceInit == LoopInit /\ dom = Canvases

\* the record of a setFaceLow(name) call that left the face state `done`
LowCallRecord(name, done) ==
    [name |-> name, at |-> now, lock |-> lockUntil,
     before |-> currentFace, after |-> done.currentFace,
     since |-> lockCall,
     pending |-> \E x \in faceTimers : x.id = lockCall.timer,
     applied |-> now >= lockUntil]

\* status-bar.js init(): the assets are loaded, blitFace(currentFace)
FacesLoaded ==
    /\ ~facesReady
    /\ SetFaceState(blitFace([FaceState EXCEPT !.facesReady = TRUE], currentFace))
    /\ UNCHANGED <<now, lowCall, lockCall, revert>>
    /\ UNCHANGED <<mouseVars, frameVars, timerVars, dom, genVars, particleVars, drawVars>>

\* a low-priority caller calls setFaceLow(name)
SetFaceLow ==
    /\ \E name \in LowFaces :
          LET done == setFaceLow(FaceState, name, now)
          IN  /\ SetFaceState(done)
              /\ lowCall' = LowCallRecord(name, done)
    /\ UNCHANGED <<now, lockCall, revert>>
    /\ UNCHANGED <<mouseVars, frameVars, timerVars, dom, genVars, particleVars, drawVars>>

\* a high-priority caller calls flashFaceHigh(name, ms)
FlashFaceHigh ==
    /\ faceTimerIds < MaxFlashes
    /\ \E name \in HighFaces :
       \E ms \in Durations :
          /\ SetFaceState(flashFaceHigh(FaceState, name, ms, now))
          /\ lockCall' = [op |-> "flashFaceHigh", at |-> now, ms |-> ms,
                          timer |-> faceTimerIds + 1]
    /\ UNCHANGED <<now, lowCall, revert>>
    /\ UNCHANGED <<mouseVars, frameVars, timerVars, dom, genVars, particleVars, drawVars>>

\* a caller calls lockFace(ms)
LockFace ==
    /\ \E ms \in Durations :
          /\ SetFaceState(lockFace(FaceState, ms, now))
          /\ lockCall' = [op |-> "lockFace", at |-> now, ms |-> ms, timer |-> 0]
    /\ UNCHANGED <<now, lowCall, revert>>
    /\ UNCHANGED <<mouseVars, frameVars, timerVars, dom, genVars, particleVars, drawVars>>

\* a caller calls clearLock()
ClearLock ==
    /\ SetFaceState(clearLock(FaceState))
    /\ lockCall' = [op |-> "clearLock", at |-> now, ms |-> 0, timer |-> 0]
    /\ UNCHANGED <<now, lowCall, revert>>
    /\ UNCHANGED <<mouseVars, frameVars, timerVars, dom, genVars, particleVars, drawVars>>

\* the timeout of flashFace runs: blitFace("idle")
FaceTimeoutFires ==
    /\ \E x \in faceTimers :
          /\ now >= x.due
          /\ SetFaceState(blitFace([FaceState EXCEPT !.faceTimers = @ \ {x}], "idle"))
          /\ revert' = [timer |-> x.id,
                        low   |-> /\ lowCall.applied
                                  /\ lowCall.since.op = "flashFaceHigh"
                                  /\ lowCall.since.timer = x.id]
    /\ UNCHANGED <<now, lowCall, lockCall>>
    /\ UNCHANGED <<mouseVars, frameVars, timerVars, dom, genVars, particleVars, drawVars>>

\* FaceTickMs milliseconds pass; a timeout that is due runs first
FaceTick ==
    /\ now < MaxNow
    /\ \A x \in faceTimers : now < x.due
    /\ now' = now + FaceTickMs
    /\ UNCHANGED <<lockUntil, currentFace, facesReady, faceTimer, faceTimers,
                   faceTimerIds, lowCall, lockCall, revert>>
    /\ UNCHANGED <<mouseVars, frameVars, timerVars, dom, genVars, particleVars, drawVars>>

\* mouse-look: the zone codes used, and FACE_BY_ZONE
Zones == {"C", "L"}

FACE_BY_ZONE(zone) == IF zone = "L" THEN "look_left" ELSE "idle"

\* a mousemove event with the cursor in `zone`: onMove(e)
MouseMove ==
    /\ \E zone \in Zones :
          LET passed == ~(now - moveT < THROTTLE_MS)
              call   == passed /\ zone # lastZone
              done   == IF call THEN setFaceLow(FaceState, FACE_BY_ZONE(zone), now)
                        ELSE FaceState
          IN  /\ moveT' = IF passed THEN now ELSE moveT
              /\ lastZone' = IF call THEN zone ELSE lastZone
              /\ SetFaceState(done)
              /\ lowCall' = IF call THEN LowCallRecord(FACE_BY_ZONE(zone), done)
                            ELSE lowCall
              /\ moveCall' = [zone |-> zone, passed |-> passed,
                              unlocked |-> now >= lockUntil,
                              ready |-> facesReady,
                              face |-> done.currentFace]
    /\ UNCHANGED <<now, lockCall, revert>>
    /\ UNCHANGED <<frameVars, timerVars, dom, genVars, particleVars, drawVars>>

\* a mouseleave event: onLeave()
MouseLeave ==
    /\ lastZone' = "none"
    /\ LET done == setFaceLow(FaceState, "idle", now)
       IN  /\ SetFaceState(done)
           /\ lowCall' = LowCallRecord("idle", done)
    /\ UNCHANGED <<now, lockCall, revert, moveT, moveCall>>
    /\ UNCHANGED <<frameVars, timerVars, dom, genVars, particleVars, drawVars>>

FaceNext ==
    \/ FacesLoaded
    \/ SetFaceLow
    \/ FlashFaceHigh
    \/ LockFace
    \/ ClearLock
    \/ FaceTimeoutFires
    \/ FaceTick

SpecFace == FaceInit /\ [][FaceNext]_vars

\* C14: a setFaceLow call made at a time strictly before lockUntil does not
\* change the displayed face, and after any sequence of flashFaceHigh,
\* lockFace and clearLock calls lockUntil is the value set by the most
\* recent of them: its now + ms, or 0 for clearLock.
C14_LowOnlyWhenUnlocked ==
    /\ (lowCall.name # "none" /\ lowCall.at < lowCall.lock)
          => lowCall.after = lowCall.before
    /\ lockUntil = IF lockCall.op \in {"none", "clearLock"} THEN 0
                   ELSE lockCall.at + lockCall.ms

\* a setFaceLow call for another face than the one shown, with the assets
\* ready, made while a lock set by lockFace after an earlier flash was active
C14_Witness ==
    /\ facesReady
    /\ lowCall.name \notin {"none", lowCall.before}
    /\ lowCall.at < lowCall.lock
    /\ lockCall.op = "lockFace"
    /\ lowCall.at >= lockCall.at
    /\ faceTimerIds >= 1

\* C23: after flashFaceHigh(name, ms), with no further flashFaceHigh,
\* lockFace or clearLock call, no setFaceLow update is applied before the
\* flash's delayed revert to idle has run, so the revert never overwrites a
\* face set by a low-priority update, however the timeout callback and the
\* setFaceLow calls interleave.
C23_FlashHoldsUntilRevert ==
    /\ (lowCall.since.op = "flashFaceHigh" /\ lowCall.pending)
          => ~lowCall.applied
    /\ ~revert.low

\* the page with mouse-look and flashes made by high-priority callers
MouseNext ==
    \/ FacesLoaded
    \/ FlashFaceHigh
    \/ FaceTimeoutFires
    \/ FaceTick
    \/ MouseMove
    \/ MouseLeave

SpecMouse == FaceInit /\ [][MouseNext]_vars

\* C24: after any mouse move that passes the throttle while no lock is
\* active (and the faces are loaded), the displayed face is the frame mapped
\* to the cursor's zone, also when earlier moves into the same zone were
\* dropped because a lock was active.
C24_FaceFollowsCursor ==
    (moveCall.passed /\ moveCall.unlocked /\ moveCall.ready)
        => moveCall.face = FACE_BY_ZONE(moveCall.zone)

=============================================================================
